---- MODULE Spec2Model ----
(***************************************************************************)
(* Model of fix_types.py: a one-shot script that reads types/index.ts,     *)
(* looks for the first line containing 'export interface TransactionLimit',*)
(* then for the first line at or after it whose strip() is '}', keeps the  *)
(* lines up to that one, appends a literal block of new declarations, and  *)
(* writes the result back over the same path.                              *)
(*                                                                         *)
(* The file on disk is a sequence of characters.  A character is a one-    *)
(* element string; three of them abbreviate longer runs of the real text   *)
(* that the script never looks inside:                                     *)
(*    "E"  'export interface '       "T"  'TransactionLimit'               *)
(*    "x"  any other run of non-blank, non-brace text                      *)
(* so the marker 'export interface TransactionLimit' is <<"E","T">> and    *)
(* 'export interface AntiFraudRule {' is <<"E","x"," ","{">>.              *)
(***************************************************************************)
EXTENDS Integers, Sequences, FiniteSets, TLC

VARIABLES
    file,             \* content of file_path on disk (sequence of characters)
    linesep,          \* os.linesep of the platform the script runs on
    pc,               \* position of the script
    lines,            \* lines            (line 6)
    i,                \* loop variable i  (line 10); -1 while unbound
    limit_end_index,  \* limit_end_index  (lines 9, 15)
    new_content,      \* new_content      (lines 21, 72)
    wpos,             \* elements of new_content already written by writelines
    out,              \* what the script printed (lines 76, 78)
    run,              \* number of the current run of the script
    before,           \* history: content of the file when the run started
    reads,            \* history: times the file was opened for reading in the run
    writes,           \* history: times the file was opened for writing in the run
    trace,            \* history: positions the run has been in, in order
    failed,           \* history: an I/O failure or interrupt ended the run
    steps,            \* history: statements the run has executed
    done              \* history: one record per completed run

vars == <<file, linesep, pc, lines, i, limit_end_index, new_content, wpos, out,
          run, before, reads, writes, trace, failed, steps, done>>

----------------------------------------------------------------------------
(* Bounds of the model *)

\* longest input file, in lines
MaxLines == 3

\* how many times the script is run on the same file
MaxRuns == 2

----------------------------------------------------------------------------
(* Text *)

LF == "\n"
CR == "\r"

\* characters str.strip() removes (those of them that occur in the model)
Whitespace == {" ", LF, CR}

\* 'export interface TransactionLimit' (line 11)
Marker == <<"E", "T">>

\* the literal new_types (lines 24-71): it starts with a line break, holds
\* declarations that open with 'export interface ' but never name
\* TransactionLimit, closes each of them with a lone '}' line, separates
\* them with blank lines, indents their member lines, and ends with a
\* line break.
new_types ==
    <<LF, "E", "x", " ", "{", LF,
          " ", "x", ";", LF,
          "}", LF,
          LF,
          "E", "x", " ", "{", LF,
          "}", LF>>

RECURSIVE Concat(_)
\* ''.join(ss)
Concat(ss) == IF ss = <<>> THEN <<>> ELSE Head(ss) \o Concat(Tail(ss))

RECURSIVE LStrip(_)
LStrip(s) ==
    IF s # <<>> /\ Head(s) \in Whitespace THEN LStrip(Tail(s)) ELSE s

RECURSIVE RStrip(_)
RStrip(s) ==
    IF s # <<>> /\ s[Len(s)] \in Whitespace
    THEN RStrip(SubSeq(s, 1, Len(s) - 1))
    ELSE s

\* line.strip()
Strip(s) == RStrip(LStrip(s))

\* a slip: only the first element of sub is looked for, as if the marker
\* were cut to 'export interface '
ContainsHead(sub, s) == \E k \in 1..Len(s) : s[k] = sub[1]

\* sub in s
Contains(sub, s) ==
    \E k \in 1..(Len(s) - Len(sub) + 1) : SubSeq(s, k, k + Len(sub) - 1) = sub

RECURSIVE TranslateOut(_, _)
\* open(..., 'w') with newline=None: every '\n' written becomes os.linesep
TranslateOut(s, sep) ==
    IF s = <<>> THEN <<>>
    ELSE (IF Head(s) = LF THEN sep ELSE <<Head(s)>>) \o TranslateOut(Tail(s), sep)

RECURSIVE ReadFrom(_, _, _)
\* the lines read from the characters s[start..] of a file opened for
\* reading as text (newline=None), k being the character looked at: a line
\* ends at '\n', at '\r\n' or at a lone '\r', each of which is handed to the
\* program as '\n'; the last line may end with the file
ReadFrom(s, start, k) ==
    IF k > Len(s)
    THEN (IF start > Len(s) THEN <<>> ELSE <<SubSeq(s, start, Len(s))>>)
    ELSE IF s[k] = LF
         THEN <<Append(SubSeq(s, start, k - 1), LF)>> \o ReadFrom(s, k + 1, k + 1)
    ELSE IF s[k] = CR /\ k < Len(s) /\ s[k + 1] = LF
         THEN <<Append(SubSeq(s, start, k - 1), LF)>> \o ReadFrom(s, k + 2, k + 2)
    ELSE IF s[k] = CR
         THEN <<Append(SubSeq(s, start, k - 1), LF)>> \o ReadFrom(s, k + 1, k + 1)
    ELSE ReadFrom(s, start, k + 1)

\* f.readlines() on the file opened with open(file_path, 'r', encoding='utf-8')
ReadLines(bytes) == ReadFrom(bytes, 1, 1)

----------------------------------------------------------------------------
(* The search, lines 9-17.  Indices are the script's: they count from 0.   *)

RECURSIVE ScanBraceAny(_, _)
\* a slip: '}' in lines[j] instead of lines[j].strip() == '}'
ScanBraceAny(ls, j) ==
    IF j >= Len(ls) THEN -1
    ELSE IF Contains(<<"}">>, ls[j + 1]) THEN j
    ELSE ScanBraceAny(ls, j + 1)

RECURSIVE ScanBraceNoBreak(_, _, _)
\* the inner loop without the break of line 16: the last match stays
ScanBraceNoBreak(ls, j, last) ==
    IF j >= Len(ls) THEN last
    ELSE IF Strip(ls[j + 1]) = <<"}">> THEN ScanBraceNoBreak(ls, j + 1, j)
    ELSE ScanBraceNoBreak(ls, j + 1, last)

\* a slip: the break of line 16 is missing
ScanBraceLast(ls, j) == ScanBraceNoBreak(ls, j, -1)

RECURSIVE ScanBrace(_, _)
\* for j in range(i, len(lines)): if lines[j].strip() == '}': ... break
ScanBrace(ls, j) ==
    IF j >= Len(ls) THEN -1
    ELSE IF Strip(ls[j + 1]) = <<"}">> THEN j
    ELSE ScanBrace(ls, j + 1)

RECURSIVE ScanMarkerFromTop(_, _)
\* a slip: range(len(lines)) instead of range(i, len(lines)) in line 13
ScanMarkerFromTop(ls, k) ==
    IF k >= Len(ls) THEN [i |-> Len(ls) - 1, limit_end_index |-> -1]
    ELSE IF Contains(Marker, ls[k + 1])
         THEN [i |-> k, limit_end_index |-> ScanBrace(ls, 0)]
         ELSE ScanMarkerFromTop(ls, k + 1)

RECURSIVE ScanMarkerNoBreak(_, _, _)
\* the outer loop without the break of line 17: every marker line starts
\* an inner loop, and what the last successful one found stays
ScanMarkerNoBreak(ls, k, last) ==
    IF k >= Len(ls) THEN last
    ELSE IF Contains(Marker, ls[k + 1]) /\ ScanBrace(ls, k) # -1
         THEN ScanMarkerNoBreak(ls, k + 1, ScanBrace(ls, k))
         ELSE ScanMarkerNoBreak(ls, k + 1, last)

\* a slip: the break of line 17 is missing
ScanMarkerLast(ls, k) ==
    [i |-> Len(ls) - 1, limit_end_index |-> ScanMarkerNoBreak(ls, k, -1)]

RECURSIVE ScanMarker(_, _)
\* for i, line in enumerate(lines): if marker in line: ...; break
\* gives the values of i and limit_end_index when the loop is left
ScanMarker(ls, k) ==
    IF k >= Len(ls) THEN [i |-> Len(ls) - 1, limit_end_index |-> -1]
    ELSE IF Contains(Marker, ls[k + 1])
         THEN [i |-> k, limit_end_index |-> ScanBrace(ls, k)]
         ELSE ScanMarker(ls, k + 1)

----------------------------------------------------------------------------
(* Input files *)

\* the text of the lines an input file is made of, without line terminator
Bodies ==
    { <<"E", "T", " ", "{">>,     \* export interface TransactionLimit {
      <<"}">>,                    \* }
      <<" ", "}", " ">>,          \* an indented } with trailing blanks
      <<"}", ";">>,               \* };
      <<"E", "x", " ", "{">>,     \* export interface Other {
      <<" ", "x", ";">> }         \* a member line

\* the line terminators an input file uses
Terminators == { <<LF>>, <<CR, LF>> }

\* the file with the line bodies bs, every line ended by eol, the last line
\* only if closed
MakeFile(bs, eol, closed) ==
    Concat([k \in 1..Len(bs) |->
               IF k < Len(bs) \/ closed THEN bs[k] \o eol ELSE bs[k]])

Documents ==
    { MakeFile(bs, eol, closed) :
        bs \in UNION { [1..n -> Bodies] : n \in 0..MaxLines },
        eol \in Terminators,
        closed \in BOOLEAN }

----------------------------------------------------------------------------
(* The script *)

Init ==
    /\ file \in Documents
    /\ linesep \in Terminators
    /\ pc = "START"
    /\ lines = <<>>
    /\ i = -1
    /\ limit_end_index = -1
    /\ new_content = <<>>
    /\ wpos = 0
    /\ out = "none"
    /\ run = 1
    /\ before = file
    /\ reads = 0
    /\ writes = 0
    /\ trace = <<"START">>
    /\ failed = FALSE
    /\ steps = 0
    /\ done = <<>>

\* lines 5-6: with open(file_path, 'r', encoding='utf-8') as f: lines = f.readlines()
Read ==
    /\ pc = "START"
    /\ lines' = ReadLines(file)
    /\ reads' = reads + 1
    /\ pc' = "LOCATING"
    /\ trace' = Append(trace, "LOCATING")
    /\ steps' = steps + 1
    /\ UNCHANGED <<file, linesep, i, limit_end_index, new_content, wpos, out,
                   run, before, writes, failed, done>>

\* lines 9-19: the two loops, then the test of limit_end_index
Locate ==
    /\ pc = "LOCATING"
    /\ LET r == ScanMarker(lines, 0) IN
        /\ i' = r.i
        /\ limit_end_index' = r.limit_end_index
        /\ pc' = IF r.limit_end_index # -1 THEN "FOUND" ELSE "NOT_FOUND"
        /\ trace' = Append(trace, pc')
    /\ steps' = steps + 1
    /\ UNCHANGED <<file, linesep, lines, new_content, wpos, out, run, before,
                   reads, writes, failed, done>>

\* a slip: new_content = lines[i+1:limit_end_index+1], the anchor line is
\* dropped with what stands before it
SpliceBody ==
    /\ pc = "FOUND"
    /\ new_content' = SubSeq(lines, i + 2, limit_end_index + 1)
    /\ pc' = "SPLICING"
    /\ trace' = Append(trace, "SPLICING")
    /\ steps' = steps + 1
    /\ UNCHANGED <<file, linesep, lines, i, limit_end_index, wpos, out, run,
                   before, reads, writes, failed, done>>

\* line 21: new_content = lines[:limit_end_index+1]
Splice ==
    /\ pc = "FOUND"
    /\ new_content' = SubSeq(lines, 1, limit_end_index + 1)
    /\ pc' = "SPLICING"
    /\ trace' = Append(trace, "SPLICING")
    /\ steps' = steps + 1
    /\ UNCHANGED <<file, linesep, lines, i, limit_end_index, wpos, out, run,
                   before, reads, writes, failed, done>>

\* line 72: new_content.append(new_types)
AppendTypes ==
    /\ pc = "SPLICING"
    /\ new_content' = Append(new_content, new_types)
    /\ pc' = "APPENDING"
    /\ trace' = Append(trace, "APPENDING")
    /\ steps' = steps + 1
    /\ UNCHANGED <<file, linesep, lines, i, limit_end_index, wpos, out, run,
                   before, reads, writes, failed, done>>

\* a slip: open(file_path, 'a', ...), which keeps what the file holds
OpenAppend ==
    /\ pc = "APPENDING"
    /\ file' = file
    /\ wpos' = 0
    /\ writes' = writes + 1
    /\ pc' = "WRITING"
    /\ trace' = Append(trace, "WRITING")
    /\ steps' = steps + 1
    /\ UNCHANGED <<linesep, lines, i, limit_end_index, new_content, out, run,
                   before, reads, failed, done>>

\* line 74: open(file_path, 'w', encoding='utf-8') truncates the file
OpenWrite ==
    /\ pc = "APPENDING"
    /\ file' = <<>>
    /\ wpos' = 0
    /\ writes' = writes + 1
    /\ pc' = "WRITING"
    /\ trace' = Append(trace, "WRITING")
    /\ steps' = steps + 1
    /\ UNCHANGED <<linesep, lines, i, limit_end_index, new_content, out, run,
                   before, reads, failed, done>>

\* line 75: f.writelines(new_content) writes the elements one after another;
\* what has reached the disk is the text of the first wpos elements
WriteElem ==
    /\ pc = "WRITING"
    /\ wpos < Len(new_content)
    /\ file' = file \o TranslateOut(new_content[wpos + 1], linesep)
    /\ wpos' = wpos + 1
    /\ steps' = steps + 1
    /\ UNCHANGED <<linesep, pc, lines, i, limit_end_index, new_content, out,
                   run, before, reads, writes, trace, failed, done>>

\* what a completed run leaves behind
Outcome(o) ==
    [file |-> file, i |-> i, limit_end_index |-> limit_end_index,
     out |-> o, writes |-> writes, before |-> before]

\* a slip: the success message is printed inside the with block, before
\* writelines has written everything
ReportEarly ==
    /\ pc = "WRITING"
    /\ out' = "success"
    /\ pc' = "DONE"
    /\ trace' = Append(trace, "DONE")
    /\ steps' = steps + 1
    /\ done' = Append(done, Outcome("success"))
    /\ UNCHANGED <<file, linesep, lines, i, limit_end_index, new_content, wpos,
                   run, before, reads, writes, failed>>

\* lines 75-76: the with block closes the file, then print("File fixed successfully.")
Report ==
    /\ pc = "WRITING"
    /\ wpos = Len(new_content)
    /\ out' = "success"
    /\ pc' = "DONE"
    /\ trace' = Append(trace, "DONE")
    /\ done' = Append(done, Outcome("success"))
    /\ steps' = steps + 1
    /\ UNCHANGED <<file, linesep, lines, i, limit_end_index, new_content, wpos,
                   run, before, reads, writes, failed>>

\* lines 77-78: else: print("TransactionLimit not found.")
Abort ==
    /\ pc = "NOT_FOUND"
    /\ out' = "not-found"
    /\ pc' = "ABORTED"
    /\ trace' = Append(trace, "ABORTED")
    /\ done' = Append(done, Outcome("not-found"))
    /\ steps' = steps + 1
    /\ UNCHANGED <<file, linesep, lines, i, limit_end_index, new_content, wpos,
                   run, before, reads, writes, failed>>

\* line 5: open() for reading raises (permission denied, ...); nothing
\* catches it, the script ends with a traceback
ReadFail ==
    /\ pc = "START"
    /\ pc' = "FAILED"
    /\ failed' = TRUE
    /\ UNCHANGED <<file, linesep, lines, i, limit_end_index, new_content, wpos,
                   out, run, before, reads, writes, trace, steps, done>>

\* lines 74-75: a write raises (disk full, ...) or the process is
\* interrupted after open() truncated the file; nothing catches it and
\* nothing restores the file
Interrupt ==
    /\ pc = "WRITING"
    /\ pc' = "FAILED"
    /\ failed' = TRUE
    /\ UNCHANGED <<file, linesep, lines, i, limit_end_index, new_content, wpos,
                   out, run, before, reads, writes, trace, steps, done>>

\* the script is started again on the file the previous run left
Rerun ==
    /\ pc \in {"DONE", "ABORTED"}
    /\ run < MaxRuns
    /\ run' = run + 1
    /\ pc' = "START"
    /\ lines' = <<>>
    /\ i' = -1
    /\ limit_end_index' = -1
    /\ new_content' = <<>>
    /\ wpos' = 0
    /\ out' = "none"
    /\ before' = file
    /\ reads' = 0
    /\ writes' = 0
    /\ trace' = <<"START">>
    /\ steps' = 0
    /\ UNCHANGED <<file, linesep, failed, done>>

\* the steps of one run that no failure cuts short
Step ==
    \/ Read
    \/ Locate
    \/ Splice
    \/ AppendTypes
    \/ OpenWrite
    \/ WriteElem
    \/ Report
    \/ Abort

Next ==
    \/ Step
    \/ ReadFail
    \/ Interrupt
    \/ Rerun

Spec == Init /\ [][Next]_vars

----------------------------------------------------------------------------
(* Vocabulary of the properties.  It speaks about the characters of a file *)
(* on disk and is defined without the operators the script is modelled     *)
(* with.  Line numbers count from 0, as the script's indices do; ls is     *)
(* always the sequence of the lines of a file.                             *)

RECURSIVE RawFrom(_, _, _)
\* the lines of the characters s[start..], k being the character looked at
RawFrom(s, start, k) ==
    IF k > Len(s)
    THEN (IF start > Len(s) THEN <<>> ELSE <<SubSeq(s, start, Len(s))>>)
    ELSE IF s[k] = LF
         THEN <<SubSeq(s, start, k)>> \o RawFrom(s, k + 1, k + 1)
         ELSE RawFrom(s, start, k + 1)

\* the lines of the file s, each with the characters that terminate it
RawLines(s) == RawFrom(s, 1, 1)

\* line n
Line(ls, n) == ls[n + 1]

\* the characters of the lines 0..n
UpTo(ls, n) == Concat(SubSeq(ls, 1, n + 1))

\* the characters of the lines after line n
After(ls, n) == Concat(SubSeq(ls, n + 2, Len(ls)))

\* the line holds 'export interface TransactionLimit'
HasMarker(l) == \E k \in 1..(Len(l) - 1) : l[k] = "E" /\ l[k + 1] = "T"

\* the line is one '}' and blanks or line terminators around it
IsLoneBrace(l) ==
    \E k \in 1..Len(l) :
        /\ l[k] = "}"
        /\ \A m \in (1..Len(l)) \ {k} : l[m] \in {" ", LF, CR}

\* the line holds a '}' and something else that is not blank
IsBraceWithMore(l) ==
    /\ \E k \in 1..Len(l) : l[k] = "}"
    /\ ~IsLoneBrace(l)

\* the line holds a brace
HasBrace(l) == \E k \in 1..Len(l) : l[k] \in {"{", "}"}

\* the line ends with a line terminator
IsClosed(l) == l # <<>> /\ l[Len(l)] = LF

MarkerLines(ls) == {n \in 0..(Len(ls) - 1) : HasMarker(Line(ls, n))}

LoneBraceLines(ls) == {n \in 0..(Len(ls) - 1) : IsLoneBrace(Line(ls, n))}

Least(S) == CHOOSE n \in S : \A m \in S : n <= m

\* the first line with the marker, -1 if there is none
AnchorOf(ls) ==
    LET ms == MarkerLines(ls) IN IF ms = {} THEN -1 ELSE Least(ms)

\* the first lone '}' line at or after line a, -1 if there is none or a is -1
BoundaryFrom(ls, a) ==
    LET later == {n \in a..(Len(ls) - 1) : IsLoneBrace(Line(ls, n))} IN
    IF a = -1 \/ later = {} THEN -1 ELSE Least(later)

\* the first lone '}' line at or after the first marker line, -1 if none
BoundaryOf(ls) == BoundaryFrom(ls, AnchorOf(ls))

\* new_types as it stands in a file whose lines end with sep
PayloadText(sep) ==
    Concat([k \in 1..Len(new_types) |->
               IF new_types[k] = LF THEN sep ELSE <<new_types[k]>>])

\* the prefixes of the sequence l
Seq0(l) == {SubSeq(l, 1, k) : k \in 0..Len(l)}

\* the elements of the sequence l
Range0(l) == {l[k] : k \in 1..Len(l)}

\* the run has left the search behind
Located == Len(trace) >= 3

\* the positions after the branch on limit_end_index that lead to the write
FoundPath == {"FOUND", "SPLICING", "APPENDING", "WRITING", "DONE"}

----------------------------------------------------------------------------
(* C1 *)

\* C1: when the file holds the marker and a lone '}' line at or after the
\* first marker line, the file a completed run leaves is the original file
\* up to and including that line, character for character, followed by the
\* payload and nothing else.  (The payload may stand with either line
\* terminator; the retained part must be the original characters.)
C1_PrefixUnchanged ==
    pc = "DONE" =>
        LET ls == RawLines(before)
            b == BoundaryOf(ls)
        IN  b # -1 =>
                \E sep \in Terminators : file = UpTo(ls, b) \o PayloadText(sep)

\* what the run does keep: the file a completed run leaves has the lines
\* 0..b of the original with the same text between their line terminators,
\* each terminator replaced by os.linesep, then the payload with os.linesep
\* for each of its line breaks.
KeptModuloTerminators ==
    pc = "DONE" =>
        LET ls == RawLines(before)
            b == BoundaryOf(ls)
            now == RawLines(file)
            plen == Len(PayloadText(linesep))
        IN  /\ b # -1
            /\ \A n \in 0..b :
                  /\ Len(now) > n
                  /\ \E t \in Terminators \cup {<<>>}, body \in Seq0(Line(ls, n)) :
                        /\ Line(ls, n) = body \o t
                        /\ LF \notin Range0(body) /\ CR \notin Range0(body)
                        /\ Line(now, n) = body \o linesep
            /\ SubSeq(file, Len(file) - plen + 1, Len(file)) = PayloadText(linesep)

----------------------------------------------------------------------------
(* C2 *)

\* the run has not written, has not entered the positions that lead to the
\* write, has left the file as it was and has reported not-found if anything
Untouched ==
    /\ writes = 0
    /\ file = before
    /\ pc \notin FoundPath
    /\ out # "success"
    /\ (Located /\ ~failed => pc \in {"NOT_FOUND", "ABORTED"})
    /\ (pc = "ABORTED" => out = "not-found")

\* C2: when no line of the file holds the marker, the run never opens the
\* file for writing, never enters the positions that lead to the write, the
\* file stays what it was, and the run reports not-found, never success.
\* (Stated the other way round: a run that has done any of these things is
\* a run on a file with the marker.)
C2_NoMarkerNoWrite ==
    ~Untouched => MarkerLines(RawLines(before)) # {}

\* a run has ended on a file that has lone '}' lines and lines with
\* 'export interface ', but no marker
C2_Witness ==
    /\ pc = "ABORTED"
    /\ out = "not-found"
    /\ LET ls == RawLines(before) IN
        /\ MarkerLines(ls) = {}
        /\ LoneBraceLines(ls) # {}
        /\ \E n \in 0..(Len(ls) - 1) : "E" \in Range0(Line(ls, n))

----------------------------------------------------------------------------
(* C3 *)

\* C3: when a line holds the marker but no line at or after the first
\* marker line is a lone '}', the run never opens the file for writing,
\* the file stays what it was and the run reports not-found; lone '}' lines
\* before the marker line do not change this.  (Stated the other way
\* round: a run that has done any of these things is not a run on such a
\* file.)
C3_NoBraceAfterMarkerNoWrite ==
    ~Untouched =>
        LET ls == RawLines(before) IN
        ~(MarkerLines(ls) # {} /\ BoundaryOf(ls) = -1)

\* a run has ended on a file with a lone '}' line before the first marker
\* line and none at or after it
C3_Witness ==
    /\ pc = "ABORTED"
    /\ out = "not-found"
    /\ LET ls == RawLines(before) IN
        /\ AnchorOf(ls) # -1
        /\ BoundaryOf(ls) = -1
        /\ \E n \in LoneBraceLines(ls) : n < AnchorOf(ls)

----------------------------------------------------------------------------
(* C4 *)

\* C4: a line that holds '}' together with other non-blank characters is
\* never the boundary, and the scan goes past it: the first line at or
\* after the anchor that is a '}' with nothing but blanks around it is the
\* boundary, whatever lines of the other kind stand before it.
C4_BraceWithMoreIsSkipped ==
    Located =>
        LET ls == RawLines(before)
            a == AnchorOf(ls)
        IN  a # -1 =>
                \A n \in a..(Len(ls) - 1) :
                    /\ IsBraceWithMore(Line(ls, n)) => limit_end_index # n
                    /\ ( /\ IsLoneBrace(Line(ls, n))
                         /\ \A m \in a..(n - 1) : ~IsLoneBrace(Line(ls, m)) )
                       => limit_end_index = n

\* the scan has gone past a '};' line and stopped at a '}' with blanks
\* around it
C4_Witness ==
    /\ Located
    /\ limit_end_index # -1
    /\ LET ls == RawLines(before) IN
        /\ Line(ls, limit_end_index) \in
              {<<" ", "}", " ", LF>>, <<" ", "}", " ", CR, LF>>}
        /\ \E n \in AnchorOf(ls)..(limit_end_index - 1) :
              IsBraceWithMore(Line(ls, n))

----------------------------------------------------------------------------
(* C5 *)

RECURSIVE MatchFrom(_, _, _, _)
\* reading the characters t, which start in line n with depth braces open:
\* the line of the closing brace that brings the depth back to 0; -1 if the
\* text ends first
MatchFrom(t, n, depth, opened) ==
    IF t = <<>> THEN -1
    ELSE IF Head(t) = "{" THEN MatchFrom(Tail(t), n, depth + 1, TRUE)
    ELSE IF Head(t) = "}" /\ opened /\ depth = 1 THEN n
    ELSE IF Head(t) = "}" /\ opened THEN MatchFrom(Tail(t), n, depth - 1, TRUE)
    ELSE IF Head(t) = LF THEN MatchFrom(Tail(t), n + 1, depth, opened)
    ELSE MatchFrom(Tail(t), n, depth, opened)

\* the line with the closing brace that matches the first opening brace at
\* or after the start of line a; -1 if there is none
MatchingBraceLine(ls, a) ==
    MatchFrom(Concat(SubSeq(ls, a + 1, Len(ls))), a, 0, FALSE)

OpensOneBlock(l) ==
    /\ Cardinality({k \in 1..Len(l) : l[k] = "{"}) = 1
    /\ \A k \in 1..Len(l) : l[k] # "}"

C5_NestedWitness ==
    /\ pc = "DONE"
    /\ run = 1
    /\ LET ls == RawLines(before) IN
        /\ limit_end_index = AnchorOf(ls) + 2
        /\ Contains(<<"{">>, Line(ls, limit_end_index - 1))
        /\ MatchingBraceLine(ls, AnchorOf(ls)) # limit_end_index

----------------------------------------------------------------------------
(* C6 *)

\* the file is the complete new content: limit_end_index + 1 lines, then
\* the whole payload
IsNewContent ==
    LET plen == Len(PayloadText(linesep))
        kept == SubSeq(file, 1, Len(file) - plen)
    IN  /\ Len(file) > plen
        /\ SubSeq(file, Len(file) - plen + 1, Len(file)) = PayloadText(linesep)
        /\ Len(RawLines(kept)) = limit_end_index + 1

\* C6: when the write fails or the process is interrupted after the write
\* has begun, the file on disk is the complete original content or the
\* complete new content (the retained lines, then the payload), never an
\* empty or truncated text in between.
C6_NoPartialWrite ==
    (failed /\ writes > 0) => (file = before \/ IsNewContent)

----------------------------------------------------------------------------
(* C7 *)

\* C7 as stated: a run on the file a successful run has left reports
\* not-found and does not write.
C7_SecondRunNotFound ==
    (run > 1 /\ pc \in {"DONE", "ABORTED"} /\ done[run - 1].out = "success") =>
        (out = "not-found" /\ writes = 0)

\* C7, amended: a run on the file a successful run has left finds the
\* marker and a boundary again, never takes the not-found branch, opens the
\* file for writing once and reports success.
C7_SecondRunSucceeds ==
    (run > 1 /\ done[run - 1].out = "success") =>
        /\ pc \notin {"NOT_FOUND", "ABORTED"}
        /\ (Located => limit_end_index # -1)
        /\ (pc = "DONE" => out = "success" /\ writes = 1)

\* the second run on the output of a successful first run has ended
C7_Witness ==
    /\ run = 2
    /\ Len(done) = 2
    /\ done[1].out = "success"
    /\ pc = "DONE"

----------------------------------------------------------------------------
(* C8 *)

PathFound ==
    <<"START", "LOCATING", "FOUND", "SPLICING", "APPENDING", "WRITING", "DONE">>

PathNotFound == <<"START", "LOCATING", "NOT_FOUND", "ABORTED">>

IsPrefixOf(p, q) == Len(p) <= Len(q) /\ SubSeq(q, 1, Len(p)) = p

\* as long as no I/O failure has ended the run: the positions entered so
\* far are the beginning of one of the two paths, the file has been read
\* once as soon as START is left and never again, it has been opened for
\* writing at most once, only after the read and only on the path through
\* FOUND, and success has been printed only with the whole new content on
\* disk
OnOnePath ==
    ~failed =>
        /\ IsPrefixOf(trace, PathFound) \/ IsPrefixOf(trace, PathNotFound)
        /\ trace[Len(trace)] = pc
        /\ reads = (IF pc = "START" THEN 0 ELSE 1)
        /\ writes = (IF pc \in {"WRITING", "DONE"} THEN 1 ELSE 0)
        /\ (writes = 1 => reads = 1 /\ "FOUND" \in Range0(trace))
        /\ (out = "success" => pc = "DONE" /\ IsNewContent)
        /\ (out = "not-found" => pc = "ABORTED")
        /\ (pc = "DONE" => out = "success")
        /\ (pc = "ABORTED" => out = "not-found")

\* C8: absent I/O failure every run follows one of the paths START,
\* LOCATING, FOUND, SPLICING, APPENDING, WRITING, DONE and START, LOCATING,
\* NOT_FOUND, ABORTED without entering a position twice, reads the file
\* once and before any write, writes at most once and only through FOUND,
\* prints success only after the write has completed, and ends in DONE or
\* ABORTED: short of these two a statement is always ready to execute, and
\* every statement executed is one more position of the path or one more
\* element written, of which there are finitely many.
C8_OnePathToTheEnd ==
    /\ OnOnePath
    /\ ~failed => (pc \in {"DONE", "ABORTED"} \/ ENABLED Step)
    /\ steps = Len(trace) - 1 + wpos
    /\ wpos <= Len(new_content)

\* a run has gone down the whole path through FOUND
C8_Witness ==
    /\ pc = "DONE"
    /\ trace = PathFound
    /\ out = "success"
    /\ wpos > 1
    /\ ~failed

\* a run has gone down the whole path through NOT_FOUND
C8_AbortedWitness ==
    /\ pc = "ABORTED"
    /\ trace = PathNotFound
    /\ ~failed

----------------------------------------------------------------------------
(* C9 *)

\* C9: the anchor is the first line that holds the marker, and the boundary
\* is the least line number not below the anchor whose line is a lone '}';
\* lone '}' lines before the anchor and marker lines after it do not count.
C9_FirstMarkerLeastBrace ==
    Located =>
        LET ls == RawLines(before) IN
        /\ (MarkerLines(ls) # {} => i = Least(MarkerLines(ls)))
        /\ limit_end_index = BoundaryOf(ls)
        /\ (limit_end_index # -1 => limit_end_index >= i)

\* a boundary found in a file with a second marker line between the anchor
\* and the boundary
C9_Witness ==
    /\ Located
    /\ limit_end_index # -1
    /\ LET ls == RawLines(before) IN
        \E n \in MarkerLines(ls) : i < n /\ n < limit_end_index

\* a boundary found in a file with a lone '}' line before the anchor
C9_BraceBeforeWitness ==
    /\ Located
    /\ limit_end_index # -1
    /\ LET ls == RawLines(before) IN
        \E n \in LoneBraceLines(ls) : n < i

----------------------------------------------------------------------------
(* C10 *)

\* C10 as stated: a run on the file a successful run has left finds the
\* same anchor and boundary, writes, and leaves the file as it found it.
C10_SecondRunSameFile ==
    \A r \in 2..Len(done) :
        done[r - 1].out = "success" =>
            /\ done[r].out = "success"
            /\ done[r].i = done[r - 1].i
            /\ done[r].limit_end_index = done[r - 1].limit_end_index
            /\ done[r].writes = 1
            /\ done[r].file = done[r - 1].file

\* C10, amended: a run on the file a successful run has left finds the same
\* anchor and boundary and writes the file again.  It leaves the file as it
\* found it when the boundary line of the file the earlier run started from
\* ended with a line terminator.  When that line was the unterminated last
\* line of the file, the first character of the payload terminated it in
\* the earlier run, and the later run leaves the earlier run's file with
\* one more line terminator after the boundary line.  In both cases the
\* file is the lines up to the boundary followed by one copy of the payload.
C10_SecondRunSameFileIfClosed ==
    \A r \in 2..Len(done) :
        done[r - 1].out = "success" =>
            LET b == done[r - 1].limit_end_index
                was == RawLines(done[r - 1].before)
                prev == RawLines(done[r - 1].file)
            IN  /\ done[r].out = "success"
                /\ done[r].i = done[r - 1].i
                /\ done[r].limit_end_index = b
                /\ done[r].writes = 1
                /\ done[r].file =
                      IF IsClosed(Line(was, b)) THEN done[r - 1].file
                      ELSE UpTo(prev, b) \o linesep \o After(prev, b)
                /\ done[r].file = UpTo(prev, b) \o PayloadText(linesep)

\* two runs have ended with success on a file whose boundary line was
\* terminated
C10_Witness ==
    /\ Len(done) = 2
    /\ done[1].out = "success"
    /\ done[2].out = "success"
    /\ IsClosed(Line(RawLines(done[1].before), done[1].limit_end_index))

\* two runs have ended with success on a file whose boundary line was its
\* unterminated last line
C10_OpenWitness ==
    /\ Len(done) = 2
    /\ done[1].out = "success"
    /\ done[2].out = "success"
    /\ ~IsClosed(Line(RawLines(done[1].before), done[1].limit_end_index))
====
